---- MODULE Spec2Model ----
(***************************************************************************)
(* Model of docu's line scanner and parser (docu/__init__.py).             *)
(*                                                                         *)
(* A string is a sequence of one-character strings, a file is a sequence   *)
(* of raw lines (without the line terminator, which `$' and rstrip()       *)
(* ignore).  The generator non_empty_lines is the sequence of lines it     *)
(* yields together with a cursor `pos' (number of lines pulled so far);    *)
(* lines.next() past the end raises StopIteration.  Every regular          *)
(* expression of the source is an operator that computes the match and its *)
(* groups as Python's re.search does.                                      *)
(***************************************************************************)
EXTENDS Integers, Sequences, FiniteSets, TLC

----------------------------------------------------------------------------
(* Characters                                                              *)

Lower == {"a","b","c","d","e","f","g","h","i","j","k","l","m",
          "n","o","p","q","r","s","t","u","v","w","x","y","z"}

Upper == {"A","B","C","D","E","F","G","H","I","J","K","L","M",
          "N","O","P","Q","R","S","T","U","V","W","X","Y","Z"}

Digit == {"0","1","2","3","4","5","6","7","8","9"}

\* the printable characters in code-point order: 32..95, then 97..126
AsciiLow ==
  <<" ","!","\"","#","$","%","&","'","(",")","*","+",",","-",".","/",
    "0","1","2","3","4","5","6","7","8","9",":",";","<","=",">","?",
    "@","A","B","C","D","E","F","G","H","I","J","K","L","M","N","O",
    "P","Q","R","S","T","U","V","W","X","Y","Z","[","\\","]","^","_">>

AsciiHigh ==
  <<"a","b","c","d","e","f","g","h","i","j","k","l","m","n","o",
    "p","q","r","s","t","u","v","w","x","y","z","{","|","}","~">>

\* code point of a character (the order str comparison uses)
Ord(c) ==
  IF c = "\n" THEN 10
  ELSE IF \E i \in 1..Len(AsciiLow) : AsciiLow[i] = c
       THEN 31 + (CHOOSE i \in 1..Len(AsciiLow) : AsciiLow[i] = c)
       ELSE 96 + (CHOOSE i \in 1..Len(AsciiHigh) : AsciiHigh[i] = c)

\* whitespace removed by str.strip() / str.rstrip()
IsSpace(c) == c \in {" ", "\n"}

\* VALID_VAR = "([_A-Za-z][_a-zA-Z0-9]*)"
IsIdStart(c) == c = "_" \/ c \in Lower \/ c \in Upper

IsIdChar(c) == IsIdStart(c) \/ c \in Digit

----------------------------------------------------------------------------
(* Strings                                                                 *)

\* s[a:b] of Python for 0 <= a, 0 <= b (empty when a >= b)
Slice(s, a, b) ==
  LET hi == IF b > Len(s) THEN Len(s) ELSE b
  IN  IF a >= hi THEN <<>> ELSE SubSeq(s, a + 1, hi)

Drop(s, n) == Slice(s, n, Len(s))

Take(s, n) == Slice(s, 0, n)

\* s[a:-k] of Python
SliceNeg(s, a, k) == IF Len(s) - k <= a THEN <<>> ELSE Slice(s, a, Len(s) - k)

StartsWith(s, p) == Len(s) >= Len(p) /\ SubSeq(s, 1, Len(p)) = p

EndsWith(s, p) ==
  Len(s) >= Len(p) /\ SubSeq(s, Len(s) - Len(p) + 1, Len(s)) = p

RECURSIVE LeadingSpaces(_)
\* number of leading ' ' characters: what a leading run of spaces is
LeadingSpaces(s) ==
  IF s # <<>> /\ Head(s) = " " THEN 1 + LeadingSpaces(Tail(s)) ELSE 0

RECURSIVE IdentLen(_)
\* length of the longest run of identifier characters at the start of s
IdentLen(s) ==
  IF s # <<>> /\ IsIdChar(Head(s)) THEN 1 + IdentLen(Tail(s)) ELSE 0

\* length of the longest prefix VALID_VAR can match (0: no match)
NameLen(s) == IF s # <<>> /\ IsIdStart(Head(s)) THEN IdentLen(s) ELSE 0

RECURSIVE LStrip(_)
LStrip(s) == IF s # <<>> /\ IsSpace(Head(s)) THEN LStrip(Tail(s)) ELSE s

RECURSIVE RStrip(_)
\* str.rstrip()
RStrip(s) ==
  IF s # <<>> /\ IsSpace(s[Len(s)]) THEN RStrip(SubSeq(s, 1, Len(s) - 1))
  ELSE s

\* str.strip()
Strip(s) == LStrip(RStrip(s))

\* 0-based index of the first c in s, Len(s) when there is none
RECURSIVE Find(_, _)
Find(s, c) ==
  IF s = <<>> \/ Head(s) = c THEN 0 ELSE 1 + Find(Tail(s), c)

\* str.split(c): the pieces between the occurrences of c
RECURSIVE Split(_, _)
Split(s, c) ==
  LET i == Find(s, c)
  IN  IF i = Len(s) THEN <<s>>
      ELSE <<Take(s, i)>> \o Split(Drop(s, i + 1), c)

\* 1-based index of the last c in s, 0 when there is none
RECURSIVE RFind(_, _)
RFind(s, c) ==
  IF s = <<>> THEN 0
  ELSE IF s[Len(s)] = c THEN Len(s)
  ELSE RFind(SubSeq(s, 1, Len(s) - 1), c)

\* p occurs in s as a substring
RECURSIVE Contains(_, _)
Contains(s, p) ==
  IF Len(s) < Len(p) THEN FALSE
  ELSE StartsWith(s, p) \/ Contains(Tail(s), p)

RECURSIVE StrLess(_, _)
\* a < b for Python strings (lexicographic by code point)
StrLess(a, b) ==
  IF b = <<>> THEN FALSE
  ELSE IF a = <<>> THEN TRUE
  ELSE IF Head(a) = Head(b) THEN StrLess(Tail(a), Tail(b))
  ELSE Ord(Head(a)) < Ord(Head(b))

SQ3 == <<"'", "'", "'">>

DQ3 == <<"\"", "\"", "\"">>

\* the alternation (\'\'\'|\"\"\") at the start / at the end of s
StartsTriple(s) == StartsWith(s, SQ3) \/ StartsWith(s, DQ3)

EndsTriple(s) == EndsWith(s, SQ3) \/ EndsWith(s, DQ3)

\* the prefix '^ {indent}': exactly `indent' spaces are consumed
Spaces(n) == [i \in 1..n |-> " "]

----------------------------------------------------------------------------
(* Line classifiers                                                        *)

\* the value None where the source has a line or None
None == <<"None">>

\* VALID_VAR followed by the rest of a pattern: ks holds the lengths k for
\* which VALID_VAR may match the first k characters so that the rest of the
\* pattern matches what follows; the greedy match is the largest (0: none)
LongestName(ks) ==
  IF ks = {} THEN 0 ELSE CHOOSE k \in ks : \A j \in ks : j <= k

\* re.search('^( +)[^ ](.*)$', line): the number of leading spaces
get_indent(line) ==
  LET n == LeadingSpaces(line)
  IN  IF n >= 1 /\ n < Len(line) THEN n ELSE 0

KwImport == <<"i","m","p","o","r","t">>

KwFrom == <<"f","r","o","m"," ">>

\* '(as  *VALID_VAR)$'
AsClause(u) ==
  /\ StartsWith(u, <<"a","s"," ">>)
  /\ LET v == Drop(u, 2)
         w == Drop(v, LeadingSpaces(v))
     IN  w # <<>> /\ NameLen(w) = Len(w)

\* ' *(as  *VALID_VAR)?$'
ImportTail(t) ==
  LET u == Drop(t, LeadingSpaces(t)) IN u = <<>> \/ AsClause(u)

\* ' *import *.*$'
FromTail(t) == StartsWith(Drop(t, LeadingSpaces(t)), KwImport)

\* '\..*'
DottedTail(t) == t # <<>> /\ Head(t) = "."

\* '\..*? *import *.*$'
DottedFromTail(t) == DottedTail(t) /\ Contains(Tail(t), KwImport)

\* the name of the imported module, or None
get_module(line, indent) ==
  LET pre  == Spaces(indent)
      imp  == pre \o KwImport \o <<" ">>
      frm  == pre \o KwFrom
      ri   == Drop(line, Len(imp))
      rf   == Drop(line, Len(frm))
      k1   == IF StartsWith(line, imp) THEN LongestName({n \in 1..NameLen(ri) : ImportTail(Drop(ri, n))}) ELSE 0
      k2   == IF StartsWith(line, imp) THEN LongestName({n \in 1..NameLen(ri) : DottedTail(Drop(ri, n))}) ELSE 0
      k3   == IF StartsWith(line, frm) THEN LongestName({n \in 1..NameLen(rf) : FromTail(Drop(rf, n))}) ELSE 0
      k4   == IF StartsWith(line, frm) THEN LongestName({n \in 1..NameLen(rf) : DottedFromTail(Drop(rf, n))}) ELSE 0
  IN  IF k1 > 0 THEN Take(ri, k1)
      ELSE IF k2 > 0 THEN Take(ri, k2)
      ELSE IF k3 > 0 THEN Take(rf, k3)
      ELSE IF k4 > 0 THEN Take(rf, k4)
      ELSE None

KwVersion == <<"_","_","v","e","r","s","i","o","n","_","_">>

IsQuote(c) == c = "'" \/ c = "\""

\* get_version returning the quoted text with its quotes
get_version_quoted(line, indent) ==
  LET pre == Spaces(indent) \o KwVersion
      r1  == Drop(line, Len(pre))
      r2  == Drop(r1, LeadingSpaces(r1))
      r3  == Drop(r2, 1)
      r4  == RStrip(Drop(r3, LeadingSpaces(r3)))
  IN  IF /\ StartsWith(line, pre)
         /\ r2 # <<>> /\ Head(r2) = "="
         /\ Len(r4) >= 2 /\ IsQuote(r4[1]) /\ IsQuote(r4[Len(r4)])
      THEN r4
      ELSE <<>>

\* group(2) of '^ {indent}__version__ *= *(\'|\")(.*)(\'|\") *$', or ''
get_version(line, indent) ==
  LET pre == Spaces(indent) \o KwVersion
      r1  == Drop(line, Len(pre))
      r2  == Drop(r1, LeadingSpaces(r1))
      r3  == Drop(r2, 1)
      r4  == RStrip(Drop(r3, LeadingSpaces(r3)))
  IN  IF /\ StartsWith(line, pre)
         /\ r2 # <<>> /\ Head(r2) = "="
         /\ Len(r4) >= 2 /\ IsQuote(r4[1]) /\ IsQuote(r4[Len(r4)])
      THEN Slice(r4, 1, Len(r4) - 1)
      ELSE <<>>

\* ' *= *(.*)$'
AssignTail(t) ==
  LET u == Drop(t, LeadingSpaces(t)) IN u # <<>> /\ Head(u) = "="

\* group(1) of ' *= *(.*)$'
AssignValue(t) ==
  LET u == Drop(t, LeadingSpaces(t))
      v == Drop(u, 1)
  IN  Drop(v, LeadingSpaces(v))

\* the match of '^ {indent}VALID_VAR *= *(.*)$': found is FALSE for None
get_variable(line, indent) ==
  LET pre == Spaces(indent)
      r   == Drop(line, indent)
      k   == IF StartsWith(line, pre) THEN LongestName({n \in 1..NameLen(r) : AssignTail(Drop(r, n))}) ELSE 0
  IN  IF k > 0
      THEN [found |-> TRUE, name |-> Take(r, k), value |-> AssignValue(Drop(r, k))]
      ELSE [found |-> FALSE, name |-> <<>>, value |-> <<>>]

KwRaise == <<"r","a","i","s","e"," ">>

\* group(1) of '^ *raise (.*)\(.*\)$', or '': the greedy group runs to the
\* last '(' of the line
get_exception(line) ==
  LET r == Drop(line, LeadingSpaces(line))
      t == Drop(r, Len(KwRaise))
      p == RFind(Take(t, Len(t) - 1), "(")
  IN  IF StartsWith(r, KwRaise) /\ t # <<>> /\ t[Len(t)] = ")" /\ p > 0
      THEN Take(t, p - 1)
      ELSE <<>>

----------------------------------------------------------------------------
(* The line stream                                                         *)

\* line.split('#')[0].rstrip()
StripComment(raw) == RStrip(Take(raw, Find(raw, "#")))

\* one iteration of non_empty_lines' loop: the new inside_docstring flag,
\* whether a line is yielded, and the line
ScanLine(inside, raw) ==
  LET r      == Drop(raw, LeadingSpaces(raw))
      opens  == StartsTriple(r)
      closes == EndsTriple(Drop(r, 3))
      ins    == IF ~inside THEN opens /\ ~closes
                ELSE ~EndsTriple(StripComment(raw))
  IN  IF ins
      THEN [inside |-> TRUE, yields |-> TRUE, out |-> RStrip(raw)]
      ELSE [inside |-> FALSE, yields |-> StripComment(raw) # <<>>,
            out |-> StripComment(raw)]

RECURSIVE ScanFrom(_, _)
ScanFrom(inside, fil) ==
  IF fil = <<>> THEN <<>>
  ELSE LET st == ScanLine(inside, Head(fil))
       IN  (IF st.yields THEN <<st.out>> ELSE <<>>)
             \o ScanFrom(st.inside, Tail(fil))

RECURSIVE ScanInside(_, _)
\* inside_docstring after the loop has read the first n raw lines
ScanInside(fil, n) ==
  IF n = 0 THEN FALSE ELSE ScanLine(ScanInside(fil, n - 1), fil[n]).inside

\* the numbers of the raw lines the generator yields, in order
YieldIndex(fil) ==
  LET Yielded(i) == ScanLine(ScanInside(fil, i - 1), fil[i]).yields
  IN  SelectSeq([i \in 1..Len(fil) |-> i], Yielded)

\* the lines the generator yields over the raw lines of a file
non_empty_lines(fil) == ScanFrom(FALSE, fil)

----------------------------------------------------------------------------
(* get_docstring                                                           *)

\* StopIteration leaves get_docstring: nothing is returned
DocRaise(lines) ==
  [line |-> None, out |-> <<>>, pos |-> Len(lines), raised |-> "StopIteration"]

RECURSIVE DocLoop(_, _, _, _, _)
\* the 'while 1' loop: line is the line under test, pos lines were pulled
DocLoop(out, line, lines, pos, indent) ==
  IF EndsTriple(line)
  THEN LET last == SliceNeg(line, indent, 3)
           out2 == IF last # <<>> THEN out \o <<"\n">> \o last ELSE out
       IN  IF pos = Len(lines) THEN DocRaise(lines)
           ELSE [line |-> lines[pos + 1], out |-> Strip(out2),
                 pos |-> pos + 1, raised |-> ""]
  ELSE IF pos = Len(lines) THEN DocRaise(lines)
       ELSE DocLoop(out \o <<"\n">> \o Drop(line, indent), lines[pos + 1],
                    lines, pos + 1, indent)

\* get_docstring with the opener pattern '^ *' for '^ {indent}'
get_docstring_any_indent(line, lines, pos, indent) ==
  LET r      == Drop(line, LeadingSpaces(line))
      res    == StartsTriple(r)
      rest   == Drop(r, 3)
      closed == EndsTriple(rest)
  IN  IF ~res
      THEN [line |-> line, out |-> <<>>, pos |-> pos, raised |-> ""]
      ELSE IF closed
      THEN [line |-> line, out |-> Take(rest, Len(rest) - 3), pos |-> pos,
            raised |-> ""]
      ELSE IF pos = Len(lines) THEN DocRaise(lines)
      ELSE DocLoop(rest, lines[pos + 1], lines, pos + 1, indent)

\* get_docstring(line, lines, indent) when pos lines of `lines' were pulled:
\* the returned line and docstring, the new cursor, the escaping exception
get_docstring(line, lines, pos, indent) ==
  LET r      == Drop(line, indent)
      res    == StartsWith(line, Spaces(indent)) /\ StartsTriple(r)
      rest   == Drop(r, 3)
      closed == EndsTriple(rest)
  IN  IF ~res
      THEN [line |-> line, out |-> <<>>, pos |-> pos, raised |-> ""]
      ELSE IF closed
      THEN [line |-> line, out |-> Take(rest, Len(rest) - 3), pos |-> pos,
            raised |-> ""]
      ELSE IF pos = Len(lines) THEN DocRaise(lines)
      ELSE DocLoop(rest, lines[pos + 1], lines, pos + 1, indent)

----------------------------------------------------------------------------
(* get_function                                                            *)

KwDef == <<"d","e","f"," ">>

RightParColon == <<")",":">>

\* LEFT_PAR after the name
ParenTail(t) == t # <<>> /\ Head(t) = "("

\* '(.*?)(\):)?$': the lazy group and whether the optional group matched
LazyArgs(t) ==
  IF EndsWith(t, RightParColon)
  THEN [text |-> Take(t, Len(t) - 2), endpar |-> TRUE]
  ELSE [text |-> t, endpar |-> FALSE]

\* '^ {indent}def VALID_VAR\((.*?)(\):)?$'
DefHeader(line, indent) ==
  LET pre == Spaces(indent) \o KwDef
      r   == Drop(line, Len(pre))
      k   == IF StartsWith(line, pre) THEN LongestName({n \in 1..NameLen(r) : ParenTail(Drop(r, n))}) ELSE 0
      g   == LazyArgs(Drop(r, k + 1))
  IN  [match |-> k > 0, name |-> Take(r, k), allargs |-> g.text,
       endpar |-> g.endpar]

RECURSIVE HeaderLoopOverwrite(_, _, _, _)
\* HeaderLoop with 'allargs = res2.group(1)' for 'allargs += res2.group(1)'
HeaderLoopOverwrite(allargs, endpar, lines, pos) ==
  IF endpar THEN [allargs |-> allargs, pos |-> pos, raised |-> ""]
  ELSE IF pos = Len(lines)
  THEN [allargs |-> allargs, pos |-> pos, raised |-> "StopIteration"]
  ELSE LET l == lines[pos + 1]
           g == LazyArgs(Drop(l, LeadingSpaces(l)))
       IN  HeaderLoopOverwrite(g.text, g.endpar, lines, pos + 1)

RECURSIVE HeaderLoop(_, _, _, _)
\* 'while not endpar': pulls header lines until one ends in '):'; the
\* StopIteration of lines.next() is not caught here
HeaderLoop(allargs, endpar, lines, pos) ==
  IF endpar THEN [allargs |-> allargs, pos |-> pos, raised |-> ""]
  ELSE IF pos = Len(lines)
  THEN [allargs |-> allargs, pos |-> pos, raised |-> "StopIteration"]
  ELSE LET l == lines[pos + 1]
           g == LazyArgs(Drop(l, LeadingSpaces(l)))
       IN  HeaderLoop(allargs \o g.text, g.endpar, lines, pos + 1)

\* IsPositional for the pattern '^VALID_VAR' without the '$'
IsPositionalPrefix(a) == NameLen(a) > 0

\* '^VALID_VAR$' on the stripped token
IsPositional(a) == a # <<>> /\ NameLen(a) = Len(a)

RECURSIVE SplitArgsNoStrip(_, _)
\* SplitArgs matching the tokens as split, without arg.strip()
SplitArgsNoStrip(toks, acc) ==
  IF toks = <<>> THEN acc
  ELSE LET a == Head(toks)
           k == LongestName({n \in 1..NameLen(a) : AssignTail(Drop(a, n))})
       IN  SplitArgsNoStrip(Tail(toks),
             [args     |-> IF IsPositional(a) THEN Append(acc.args, a)
                           ELSE acc.args,
              keywords |-> IF k > 0 THEN Append(acc.keywords, Take(a, k))
                           ELSE acc.keywords,
              defaults |-> IF k > 0
                           THEN Append(acc.defaults, AssignValue(Drop(a, k)))
                           ELSE acc.defaults])

RECURSIVE SplitArgs(_, _)
\* 'for arg in allargs': args, keywords and defaults, appended in order
SplitArgs(toks, acc) ==
  IF toks = <<>> THEN acc
  ELSE LET a == Strip(Head(toks))
           k == LongestName({n \in 1..NameLen(a) : AssignTail(Drop(a, n))})
       IN  SplitArgs(Tail(toks),
             [args     |-> IF IsPositional(a) THEN Append(acc.args, a)
                           ELSE acc.args,
              keywords |-> IF k > 0 THEN Append(acc.keywords, Take(a, k))
                           ELSE acc.keywords,
              defaults |-> IF k > 0
                           THEN Append(acc.defaults, AssignValue(Drop(a, k)))
                           ELSE acc.defaults])

RECURSIVE BodyLoop(_, _, _, _, _)
\* 'while get_indent(line) >= indent0': pull a line, then test it for raise
BodyLoop(line, lines, pos, indent0, exceptions) ==
  IF get_indent(line) >= indent0
  THEN IF pos = Len(lines)
       THEN [line |-> None, exceptions |-> exceptions, pos |-> pos]
       ELSE LET l   == lines[pos + 1]
                exc == get_exception(l)
            IN  BodyLoop(l, lines, pos + 1, indent0,
                         IF exc # <<>> THEN Append(exceptions, exc)
                         ELSE exceptions)
  ELSE [line |-> line, exceptions |-> exceptions, pos |-> pos]

\* lines 242-247 after the body loop returned b
BodyResult(docstring, b) ==
  [line |-> b.line, docstring |-> docstring, exceptions |-> b.exceptions,
   pos |-> b.pos]

\* lines 232-237: d is what get_docstring gave for the first body line
BodyAfterDocstring(d, lines, indent0) ==
  IF d.raised # ""
  THEN [line |-> None, docstring |-> <<>>, exceptions |-> <<>>,
        pos |-> d.pos]
  ELSE BodyResult(d.out, BodyLoop(d.line, lines, d.pos, indent0, <<>>))

\* the try block of get_function: docstring, then the body's raise lines;
\* StopIteration anywhere in it gives line = None
FunctionBody(lines, pos) ==
  IF pos = Len(lines)
  THEN [line |-> None, docstring |-> <<>>, exceptions |-> <<>>, pos |-> pos]
  ELSE BodyAfterDocstring(
         get_docstring(lines[pos + 1], lines, pos + 1,
                       get_indent(lines[pos + 1])),
         lines, get_indent(lines[pos + 1]))

NoFunction ==
  [name |-> <<>>, args |-> <<>>, keywords |-> <<>>, defaults |-> <<>>,
   docstring |-> <<>>, exceptions |-> <<>>]

\* lines 242-247: the returned tuple; a are the split parameters, b is what
\* the try block left
FunctionResult(name, a, b) ==
  [line |-> b.line, found |-> TRUE,
   function |-> [name |-> name, args |-> a.args, keywords |-> a.keywords,
                 defaults |-> a.defaults, docstring |-> b.docstring,
                 exceptions |-> b.exceptions],
   pos |-> b.pos, raised |-> ""]

\* lines 210-247: h is what the header loop left
FunctionAfterHeader(name, h, lines) ==
  IF h.raised # ""
  THEN [line |-> None, found |-> FALSE, function |-> NoFunction,
        pos |-> h.pos, raised |-> h.raised]
  ELSE FunctionResult(name,
         SplitArgs(Split(h.allargs, ","),
                   [args |-> <<>>, keywords |-> <<>>, defaults |-> <<>>]),
         FunctionBody(lines, h.pos))

\* lines 201-248: res is the match of the header pattern
FunctionFromMatch(res, line, lines, pos) ==
  IF ~res.match
  THEN [line |-> line, found |-> FALSE, function |-> NoFunction,
        pos |-> pos, raised |-> ""]
  ELSE FunctionAfterHeader(res.name,
         HeaderLoop(res.allargs, res.endpar, lines, pos), lines)

\* get_function(line, lines, indent) when pos lines of `lines' were pulled:
\* found is FALSE where the source returns None for the function, raised
\* names the exception that leaves the call
get_function(line, lines, pos, indent) ==
  FunctionFromMatch(DefHeader(line, indent), line, lines, pos)

----------------------------------------------------------------------------
(* sorted()                                                                *)

RECURSIVE InsertStr(_, _)
\* x goes after every element that is not greater than it
InsertStr(x, s) ==
  IF s = <<>> THEN <<x>>
  ELSE IF StrLess(x, Head(s)) THEN <<x>> \o s
  ELSE <<Head(s)>> \o InsertStr(x, Tail(s))

RECURSIVE SortStrFrom(_, _)
SortStrFrom(s, acc) ==
  IF s = <<>> THEN acc ELSE SortStrFrom(Tail(s), InsertStr(Head(s), acc))

\* sorted(modules)
SortedStr(s) == SortStrFrom(s, <<>>)

RECURSIVE InsertByName(_, _)
InsertByName(x, s) ==
  IF s = <<>> THEN <<x>>
  ELSE IF StrLess(x.name, Head(s).name) THEN <<x>> \o s
  ELSE <<Head(s)>> \o InsertByName(x, Tail(s))

RECURSIVE SortByNameFrom(_, _)
SortByNameFrom(s, acc) ==
  IF s = <<>> THEN acc
  ELSE SortByNameFrom(Tail(s), InsertByName(Head(s), acc))

\* sorted(..., key=itemgetter('name')): stable
SortedByName(s) == SortByNameFrom(s, <<>>)

----------------------------------------------------------------------------
(* get_class                                                               *)

KwClass == <<"c","l","a","s","s"," ">>

\* '\((.*)\):$' after the name
ClassTail(t) == ParenTail(t) /\ EndsWith(Tail(t), RightParColon)

\* '^ {indent}class VALID_VAR\((.*)\):$'
ClassHeader(line, indent) ==
  LET pre == Spaces(indent) \o KwClass
      r   == Drop(line, Len(pre))
      k   == IF StartsWith(line, pre) THEN LongestName({n \in 1..NameLen(r) : ClassTail(Drop(r, n))}) ELSE 0
      t   == Drop(r, k + 1)
  IN  [match |-> k > 0, name |-> Take(r, k),
       inheritance |-> Take(t, Len(t) - 2)]

\* one pass through the body of get_class's while loop (lines 283-301)
\* given what the three classifiers return for the line: the first that
\* matches appends, then the next line is pulled.  stop is TRUE when
\* StopIteration was raised, by lines.next() or out of get_function; what
\* was appended before it stays appended
ClassStepWith(module, variable, f, lines, pos, modules, variables, functions) ==
  LET infn == module = None /\ ~variable.found
      p    == IF infn THEN f.pos ELSE pos
      stop == (infn /\ f.raised # "") \/ p = Len(lines)
  IN  [stop |-> stop,
       line |-> IF stop THEN None ELSE lines[p + 1],
       pos |-> IF stop THEN Len(lines) ELSE p + 1,
       modules |-> IF module # None THEN Append(modules, module)
                   ELSE modules,
       variables |-> IF module = None /\ variable.found
                     THEN Append(variables, [name |-> variable.name,
                                             value |-> variable.value])
                     ELSE variables,
       functions |-> IF infn /\ f.raised = "" /\ f.found
                     THEN Append(functions, f.function)
                     ELSE functions]

ClassStep(line, lines, pos, indent0, modules, variables, functions) ==
  ClassStepWith(get_module(line, indent0), get_variable(line, indent0),
                get_function(line, lines, pos, indent0),
                lines, pos, modules, variables, functions)

RECURSIVE ClassLoop(_, _, _, _, _, _, _)
\* after one pass st through the loop body: leave on StopIteration, or test
\* the line that was pulled
ClassContinue(st, lines, indent0) ==
  IF st.stop THEN st
  ELSE ClassLoop(st.line, lines, st.pos, indent0, st.modules, st.variables,
                 st.functions)

\* 'while get_indent(line) >= indent0' of get_class and the three sorted()
\* calls after it, which a StopIteration skips
ClassLoop(line, lines, pos, indent0, modules, variables, functions) ==
  IF get_indent(line) < indent0
  THEN [line |-> line, pos |-> pos, stop |-> FALSE,
        modules |-> SortedStr(modules),
        variables |-> SortedByName(variables),
        functions |-> SortedByName(functions)]
  ELSE ClassContinue(
         ClassStep(line, lines, pos, indent0, modules, variables, functions),
         lines, indent0)

NoClass ==
  [name |-> <<>>, inheritance |-> <<>>, modules |-> <<>>, functions |-> <<>>,
   variables |-> <<>>, docstring |-> <<>>]

\* StopIteration was caught before docstring was bound: the return
\* statement of lines 309-314 raises UnboundLocalError
ClassUnbound(lines) ==
  [line |-> None, found |-> FALSE, cla |-> NoClass, pos |-> Len(lines),
   raised |-> "UnboundLocalError"]

\* lines 309-314: the returned tuple; c is what the loop left
ClassResult(res, docstring, c) ==
  [line |-> c.line, found |-> TRUE,
   cla |-> [name |-> res.name, inheritance |-> res.inheritance,
            modules |-> c.modules, functions |-> c.functions,
            variables |-> c.variables, docstring |-> docstring],
   pos |-> c.pos, raised |-> ""]

\* lines 281-314: d is what get_docstring gave for the first body line
ClassAfterDocstring(res, d, lines, indent0) ==
  IF d.raised # "" THEN ClassUnbound(lines)
  ELSE ClassResult(res, d.out,
         ClassLoop(d.line, lines, d.pos, indent0, <<>>, <<>>, <<>>))

\* lines 270-315: res is the match of the header pattern
ClassFromMatch(res, line, lines, pos) ==
  IF ~res.match
  THEN [line |-> line, found |-> FALSE, cla |-> NoClass, pos |-> pos,
        raised |-> ""]
  ELSE IF pos = Len(lines) THEN ClassUnbound(lines)
  ELSE ClassAfterDocstring(res,
         get_docstring(lines[pos + 1], lines, pos + 1,
                       get_indent(lines[pos + 1])),
         lines, get_indent(lines[pos + 1]))

\* get_class(line, lines, indent) when pos lines of `lines' were pulled:
\* found is FALSE where the source returns None for the class, raised names
\* the exception that leaves the call
get_class(line, lines, pos, indent) ==
  ClassFromMatch(ClassHeader(line, indent), line, lines, pos)

----------------------------------------------------------------------------
(* _make_function_docstring                                                *)

NL == <<"\n">>

TxSelf == <<"s","e","l","f">>

TxArgs == <<"A","r","g","s",":">>

TxReturns == <<"R","e","t","u","r","n","s",":">>

TxRaises == <<"R","a","i","s","e","s",":">>

\* '    {0} (): .\n'
ArgEntry(arg, wspace) == wspace \o Spaces(4) \o arg \o <<" ","(",")",":"," ",".","\n">>

\* '    {0} (, optional): . Defaults to {1}. \n'
KeywordEntry(kwd, default, wspace) ==
  wspace \o Spaces(4) \o kwd \o <<" ","(",","," ","o","p","t","i","o","n","a","l",")",":"," ","."," ","D","e","f","a","u","l","t","s"," ","t","o"," ">>
    \o default \o <<"."," ","\n">>

\* '    {0}\n'
ExceptionEntry(exc, wspace) == wspace \o Spaces(4) \o exc \o NL

\* zip(keywords, defaults) stops at the shorter of the two
ZipLen(keywords, defaults) ==
  IF Len(keywords) <= Len(defaults) THEN Len(keywords) ELSE Len(defaults)

\* lines 867-883: the lines yielded for a function without docstring, with
\* an Args entry for each of args
TemplateLines(args, func, wspace) ==
  <<wspace \o SQ3 \o NL, NL, NL, wspace \o TxArgs \o NL>>
  \o [i \in 1..Len(args) |-> ArgEntry(args[i], wspace)]
  \o [j \in 1..ZipLen(func.keywords, func.defaults) |->
        KeywordEntry(func.keywords[j], func.defaults[j], wspace)]
  \o <<NL, wspace \o TxReturns \o NL, NL, wspace \o TxRaises \o NL>>
  \o [k \in 1..Len(func.exceptions) |->
        ExceptionEntry(func.exceptions[k], wspace)]
  \o <<wspace \o SQ3 \o NL>>

\* line 872: if arg != 'self'
NotSelf(arg) == arg # TxSelf

\* _make_function_docstring without the test of line 872
_make_function_docstring_with_self(func, indent) ==
  IF func.docstring # <<>> THEN <<>>
  ELSE TemplateLines(func.args, func, Spaces(indent + 4))

\* the lines the generator _make_function_docstring(func, indent) yields:
\* none for a function that has a docstring
_make_function_docstring(func, indent) ==
  IF func.docstring # <<>> THEN <<>>
  ELSE TemplateLines(SelectSeq(func.args, NotSelf), func, Spaces(indent + 4))

RECURSIVE PrintedFor(_, _)
\* lines 916-919: the lines printed, 'print line.rstrip()' for every line of
\* the template of every function called function_name
PrintedFor(functions, function_name) ==
  IF functions = <<>> THEN <<>>
  ELSE (IF Head(functions).name = function_name
        THEN LET t == _make_function_docstring(Head(functions), 0)
             IN  [i \in 1..Len(t) |-> RStrip(t[i])]
        ELSE <<>>)
       \o PrintedFor(Tail(functions), function_name)

\* prepare_docstring after parse returned functions: the raise of line 921
\* stands after the loop, outside any condition
prepare_docstring(functions, function_name) ==
  [printed |-> PrintedFor(functions, function_name), raised |-> "ValueError"]

\* lines 788-791: the names of the functions whose docstring is ''
WithoutDocstrings(functions) ==
  {functions[i].name : i \in {j \in 1..Len(functions) :
                                functions[j].docstring = <<>>}}

\* lines 807-810: the first function of the list called name
FirstNamed(functions, name) ==
  functions[CHOOSE i \in 1..Len(functions) :
              /\ functions[i].name = name
              /\ \A k \in 1..(i - 1) : functions[k].name # name]

RECURSIVE HeaderEnd(_, _, _)
\* lines 813-818: the number of the line on which 'while not endpar' stops,
\* 0 when lines.next() raises StopIteration before that
HeaderEnd(fil, i, endpar) ==
  IF endpar THEN i
  ELSE IF i = Len(fil) THEN 0
  ELSE LET l == fil[i + 1]
       IN  HeaderEnd(fil, i + 1, LazyArgs(Drop(l, LeadingSpaces(l))).endpar)

\* the lines all_lines yields for the lines a to b of the file, each with
\* its line end
RawLines(fil, a, b) == [k \in 1..(b - a + 1) |-> fil[a + k - 1] \o NL]

RECURSIVE AddMissingFrom(_, _, _, _)
\* lines 797-825: what the loop yields from line i of the file on
AddMissingFrom(fil, i, functions, withoutdocstrings) ==
  IF i > Len(fil) THEN <<>>
  ELSE LET res == DefHeader(fil[i], 0)
       IN  IF ~res.match \/ res.name \notin withoutdocstrings
           THEN RawLines(fil, i, i)
                \o AddMissingFrom(fil, i + 1, functions, withoutdocstrings)
           ELSE LET e == HeaderEnd(fil, i, res.endpar)
                IN  IF e = 0 THEN RawLines(fil, i, Len(fil))
                    ELSE RawLines(fil, i, e)
                         \o _make_function_docstring(
                              FirstNamed(functions, res.name), 0)
                         \o AddMissingFrom(fil, e + 1, functions,
                                           withoutdocstrings)

\* the lines the generator _add_missing_docstring yields when parse returned
\* functions for the file: none when no function lacks a docstring
\* (lines 792-793)
_add_missing_docstring(fil, functions) ==
  IF WithoutDocstrings(functions) = {} THEN <<>>
  ELSE AddMissingFrom(fil, 1, functions, WithoutDocstrings(functions))

----------------------------------------------------------------------------
(* Input files                                                             *)

\* the text 'import re'
LnImportRe == <<"i","m","p","o","r","t"," ","r","e">>

\* the text 'import os'
LnImportOs == <<"i","m","p","o","r","t"," ","o","s">>

\* the text 'x = 5'
LnVarX == <<"x"," ","="," ","5">>

\* the text 'def foo():'
LnDefFoo == <<"d","e","f"," ","f","o","o","(",")",":">>

\* the text '    pass'
LnPass4 == <<" "," "," "," ","p","a","s","s">>

\* the text '        pass'
LnPass8 == <<" "," "," "," "," "," "," "," ","p","a","s","s">>

\* the text 'class A(object):'
LnClassA ==
  <<"c","l","a","s","s"," ","A","(","o","b","j","e","c","t",")",":">>

\* the text '''''
LnSQ3 == <<"'","'","'">>

\* the text 'desc'
LnDesc == <<"d","e","s","c">>

\* the text 'def f(a,'
LnDefOpen == <<"d","e","f"," ","f","(","a",",">>

\* the text '"""desc"""'
LnDocDesc == <<"\"","\"","\"","d","e","s","c","\"","\"","\"">>

\* the text '""" desc """'
LnDocDescPadded == <<"\"","\"","\""," ","d","e","s","c"," ","\"","\"","\"">>

\* the text '__version__ = "2.0"'
LnVersion ==
  <<"_","_","v","e","r","s","i","o","n","_","_"," ","="," ","\"","2",".","0",
    "\"">>

\* the text '    '''doc''''
LnDoc4 == <<" "," "," "," ","'","'","'","d","o","c","'","'","'">>

\* the text '    import os'
LnImportOs4 == <<" "," "," "," ","i","m","p","o","r","t"," ","o","s">>

\* the text '    x = 5'
LnVarX4 == <<" "," "," "," ","x"," ","="," ","5">>

\* the text '    def m(self): pass'
LnDefMInline ==
  <<" "," "," "," ","d","e","f"," ","m","(","s","e","l","f",")",":"," ","p",
    "a","s","s">>

\* the text '    def a(self):'
LnDefA4 == <<" "," "," "," ","d","e","f"," ","a","(","s","e","l","f",")",":">>

\* the text '    def b(self):'
LnDefB4 == <<" "," "," "," ","d","e","f"," ","b","(","s","e","l","f",")",":">>

\* the text '    def m(self):'
LnDefM4 == <<" "," "," "," ","d","e","f"," ","m","(","s","e","l","f",")",":">>

\* the text 'def f('
TxDefF == <<"d","e","f"," ","f","(">>

\* the text '    '
TxIndent == <<" "," "," "," ">>

\* the lines every file of at most MaxLines lines is drawn from
Palette ==
  {LnImportRe, LnImportOs, LnVarX, LnDefFoo, LnPass4, LnClassA, LnSQ3,
   LnDesc, LnDefOpen}

MaxLines == 3

SmallFiles == UNION {[1..n -> Palette] : n \in 0..MaxLines}

\* longer files: the scenario of the specification, classes with members
SampleFiles ==
  {<<LnDocDesc, LnVersion, LnImportRe, LnDefFoo, LnDoc4, LnPass4>>,
   <<LnDocDescPadded, LnImportOs>>,
   <<LnSQ3, LnDesc, LnSQ3, LnImportRe>>,
   <<LnClassA, LnDefA4, LnPass8, LnDefB4, LnPass8>>,
   <<LnClassA, LnDefA4, LnPass8, LnVarX4, LnDefB4, LnPass8>>,
   <<LnClassA, LnDefM4, LnPass8, LnDefFoo, LnPass4>>,
   <<LnClassA, LnVarX4, LnDefFoo, LnPass4>>,
   <<LnClassA, LnImportOs4, LnVarX4, LnDefMInline>>}

\* the text '__version__ = ""'
LnVersionEmpty ==
  <<"_","_","v","e","r","s","i","o","n","_","_"," ","="," ","\"","\"">>

\* the text '__version__ = '''
LnVersionEmptySQ ==
  <<"_","_","v","e","r","s","i","o","n","_","_"," ","="," ","'","'">>

\* the text '"""'
LnDQ3 ==
  <<"\"","\"","\"">>

\* the text 'a # ''''
LnHashClose ==
  <<"a"," ","#"," ","'","'","'">>

\* the text ''''a # b''''
LnDocHash ==
  <<"'","'","'","a"," ","#"," ","b","'","'","'">>

\* the text ''''a''' # c'
LnDocComment ==
  <<"'","'","'","a","'","'","'"," ","#"," ","c">>

\* the text ''''a'''  '
LnDocTrail ==
  <<"'","'","'","a","'","'","'"," "," ">>

\* the text ''''a"""'
LnDocMixed ==
  <<"'","'","'","a","\"","\"","\"">>

\* the text '    raise E(1)'
LnRaise4 ==
  <<" "," "," "," ","r","a","i","s","e"," ","E","(","1",")">>

\* the text 'raise V(2)'
LnRaise0 ==
  <<"r","a","i","s","e"," ","V","(","2",")">>

\* the text '    ''''
LnSQ3At4 ==
  <<" "," "," "," ","'","'","'">>

\* files with a version assignment, with empty and non-empty quoted text
VersionFiles ==
  {<<LnVersionEmpty>>, <<LnVersionEmptySQ, LnVarX>>, <<LnVersion, LnVarX>>,
   <<LnImportRe, LnVersionEmpty, LnDefFoo, LnPass4>>}

\* the lines the files about docstrings are drawn from
DocPalette ==
  {LnSQ3, LnDQ3, LnDesc, LnHashClose, LnDocHash, LnDocComment, LnDocTrail,
   LnDocMixed, LnVarX}

DocFiles == UNION {[1..n -> DocPalette] : n \in 1..MaxLines}

\* the lines that follow the header in the files about function bodies
BodyPalette == {LnRaise4, LnPass4, LnSQ3At4, LnDoc4, LnRaise0, LnVarX}

BodyFiles ==
  UNION {{<<LnDefFoo>> \o b : b \in [1..n -> BodyPalette]} : n \in 1..MaxLines}

\* the text 'def bar(a, b=1):'
LnDefBar ==
  <<"d","e","f"," ","b","a","r","(","a",","," ","b","=","1",")",":">>

\* the text 'def m(self, a, b=1):'
LnDefSelf ==
  <<"d","e","f"," ","m","(","s","e","l","f",","," ","a",","," ","b","=","1",
    ")",":">>

\* files of module-level functions that follow one another
\* a default with a comma in it and a default written with spaces
LnDefTuple == <<"d","e","f"," ","g","(","a",","," ","b","=","(","1",",","2",")",","," ","c"," ","="," ","3",")",":">>

FunctionFiles ==
  {<<LnDefFoo, LnPass4, LnDefBar, LnPass4>>,
   <<LnDefBar, LnRaise4, LnDefFoo, LnDoc4, LnVarX>>,
   <<LnImportRe, LnDefFoo, LnPass4, LnDefBar, LnPass8, LnPass4, LnDefFoo,
     LnPass4>>,
   <<LnDefSelf, LnPass4, LnRaise4, TxIndent \o LnRaise0>>,
   <<LnDefFoo, LnDoc4, LnPass4, LnDefSelf, LnPass4, LnRaise4>>,
   <<LnDefTuple, LnPass4>>}

\* the text '    import re'
LnImportRe4 == TxIndent \o LnImportRe

\* the text '    a = 1'
LnVarA4 == <<" "," "," "," ","a"," ","="," ","1">>

\* classes whose members are not in ascending order in the source, ended by
\* a dedented line or by the end of the input
ClassFiles ==
  {<<LnClassA, LnImportRe4, LnImportOs4>>,
   <<LnClassA, LnImportRe4, LnImportOs4, LnVarX4, LnVarA4, LnVarX>>,
   <<LnClassA, LnVarX4, LnVarA4>>,
   <<LnClassA, LnDefB4, LnPass8, LnVarX4, LnDefA4, LnPass8, LnVarX4, LnVarX>>}

\* the argument texts of the raise lines
RaiseArgs == {<<>>, <<"1">>, <<"f","(","1",")">>, <<"(","a",")",",","b">>}

\* the raise line with the callable name n and the argument text a
RaiseLine(n, a) == KwRaise \o n \o <<"(">> \o a \o <<")">>

\* files whose first line is raise Name(<arguments>), also indented
RaiseFiles ==
  {<<RaiseLine(n, a)>> : n \in {<<"E">>, <<"V","a","l">>}, a \in RaiseArgs}
  \cup {<<TxIndent \o RaiseLine(<<"E">>, a), LnVarX>> : a \in RaiseArgs}

\* a parameter of a function header: a bare identifier (default None) or
\* identifier, '=' and a comma-free default expression
ParamTokens ==
  {[name |-> <<"a">>, eq |-> <<>>, default |-> None],
   [name |-> <<"d">>, eq |-> <<>>, default |-> None],
   [name |-> <<"b">>, eq |-> <<"=">>, default |-> <<"1">>],
   [name |-> <<"c">>, eq |-> <<"=">>, default |-> <<"\"","x","\"">>],
   [name |-> <<"k">>, eq |-> <<" ","="," ">>, default |-> <<"2">>]}

MaxParams == 3

ParamLists == UNION {[1..n -> ParamTokens] : n \in 0..MaxParams}

\* the source text of a parameter
ParamText(p) == IF p.default = None THEN p.name ELSE p.name \o p.eq \o p.default

RECURSIVE HeaderLines(_, _, _, _)
\* the header 'def f(<params>):' with a line break after the comma that
\* follows the i-th parameter for every i in breaks; cur is the line so far
HeaderLines(params, i, breaks, cur) ==
  IF i > Len(params) THEN <<cur \o RightParColon>>
  ELSE LET c == cur \o ParamText(params[i])
       IN  IF i = Len(params) THEN <<c \o RightParColon>>
           ELSE IF i \in breaks
           THEN <<c \o <<",">> >> \o HeaderLines(params, i + 1, breaks, TxIndent)
           ELSE HeaderLines(params, i + 1, breaks, c \o <<",", " ">>)

\* what follows the header in a header file
Tails == {<<>>, <<LnPass4, LnVarX>>}

HeaderFile(params, breaks, tail) == HeaderLines(params, 1, breaks, TxDefF) \o tail

\* an input: a file given as text, or a function header given by its
\* parameters and line breaks followed by a tail
Inputs ==
  {[kind |-> "text", text |-> f, params |-> <<>>, breaks |-> {}, tail |-> <<>>]
     : f \in SmallFiles \cup SampleFiles \cup VersionFiles \cup DocFiles
              \cup BodyFiles \cup RaiseFiles
              \cup FunctionFiles \cup ClassFiles}
  \cup
  UNION {{[kind |-> "header", text |-> HeaderFile(p, b, t), params |-> p,
           breaks |-> b, tail |-> t]
            : b \in SUBSET (1..(Len(p) - 1)), t \in Tails} : p \in ParamLists}

----------------------------------------------------------------------------
(* parse, and direct calls of the three block parsers                      *)

VARIABLES
  given,        \* the input the file was written from
  fil,          \* the raw lines of the file
  lines,        \* the generator non_empty_lines(the_file): all it yields
  pos,          \* number of lines pulled from the generator
  line,         \* the current line of parse, or None
  description, version, modules, variables, functions, classes,
  pc,           \* position in parse
  ret           \* what a direct call of a block parser returned

vars ==
  <<given, fil, lines, pos, line, description, version, modules, variables,
    functions, classes, pc, ret>>

\* indentations get_docstring, get_function and get_class are called with
Indents == {0, 4}

Init ==
  /\ given \in Inputs
  /\ fil = given.text
  /\ lines = <<>>
  /\ pos = 0
  /\ line = None
  /\ description = <<>>
  /\ version = <<>>
  /\ modules = <<>>
  /\ variables = <<>>
  /\ functions = <<>>
  /\ classes = <<>>
  /\ pc = "init"
  /\ ret = [op |-> "none"]

\* line = lines.next() inside parse's try block
Advance ==
  IF pos < Len(lines)
  THEN /\ line' = lines[pos + 1]
       /\ pos' = pos + 1
       /\ pc' = "loop"
  ELSE /\ pc' = "except"
       /\ UNCHANGED <<line, pos>>

\* lines 720-730: open the file, pull the first line, module docstring
ParseBegin ==
  /\ pc = "init"
  /\ lines' = non_empty_lines(fil)
  /\ LET d == get_docstring(lines'[1], lines', 1, 0)
     IN  IF lines' = <<>> \/ d.raised # ""
         THEN /\ pc' = "except"
              /\ pos' = Len(lines')
              /\ UNCHANGED <<line, description>>
         ELSE /\ pc' = "loop"
              /\ line' = d.line
              /\ pos' = d.pos
              /\ description' = d.out
  /\ UNCHANGED <<given, fil, version, modules, variables, functions, classes,
                 ret>>

\* lines 733-738
ParseModule ==
  /\ pc = "loop" /\ line # None
  /\ get_module(line, 0) # None
  /\ modules' = Append(modules, get_module(line, 0))
  /\ Advance
  /\ UNCHANGED <<given, fil, lines, description, version, variables,
                 functions, classes, ret>>

\* lines 739-744
ParseVersion ==
  /\ pc = "loop" /\ line # None
  /\ get_module(line, 0) = None
  /\ get_version(line, 0) # <<>>
  /\ version' = get_version(line, 0)
  /\ Advance
  /\ UNCHANGED <<given, fil, lines, description, modules, variables,
                 functions, classes, ret>>

\* lines 745-750
ParseVariable ==
  /\ pc = "loop" /\ line # None
  /\ get_module(line, 0) = None
  /\ get_version(line, 0) = <<>>
  /\ LET variable == get_variable(line, 0)
     IN  /\ variable.found
         /\ variables' = Append(variables, [name |-> variable.name,
                                            value |-> variable.value])
  /\ Advance
  /\ UNCHANGED <<given, fil, lines, description, version, modules,
                 functions, classes, ret>>

\* no earlier pattern of the loop body matched the current line
Unclassified ==
  /\ pc = "loop" /\ line # None
  /\ get_module(line, 0) = None
  /\ get_version(line, 0) = <<>>
  /\ ~get_variable(line, 0).found

\* RecordFunction with a 'line = lines.next()' after the append, as in the
\* loop of get_class
RecordFunctionSkips(f) ==
  /\ f.found \/ f.raised # ""
  /\ IF f.raised # ""
     THEN /\ pc' = "except"
          /\ pos' = f.pos
          /\ UNCHANGED <<line, functions>>
     ELSE /\ functions' = Append(functions, f.function)
          /\ IF f.pos < Len(lines)
             THEN /\ line' = lines[f.pos + 1]
                  /\ pos' = f.pos + 1
                  /\ pc' = "loop"
             ELSE /\ line' = f.line
                  /\ pos' = f.pos
                  /\ pc' = "except"

\* lines 752-755 when get_function returned f or raised
RecordFunction(f) ==
  /\ f.found \/ f.raised # ""
  /\ IF f.raised # ""
     THEN /\ pc' = "except"
          /\ pos' = f.pos
          /\ UNCHANGED <<line, functions>>
     ELSE /\ functions' = Append(functions, f.function)
          /\ line' = f.line
          /\ pos' = f.pos
          /\ pc' = "loop"

\* lines 751-755: a StopIteration leaving get_function reaches the handler
ParseFunction ==
  /\ Unclassified
  /\ RecordFunction(get_function(line, lines, pos, 0))
  /\ UNCHANGED <<given, fil, lines, description, version, modules, variables,
                 classes, ret>>

\* lines 757-760 when get_class returned c or raised
RecordClass(c) ==
  /\ c.found \/ c.raised # ""
  /\ IF c.raised # ""
     THEN /\ pc' = "error"
          /\ pos' = c.pos
          /\ UNCHANGED <<line, classes>>
     ELSE /\ classes' = Append(classes, c.cla)
          /\ line' = c.line
          /\ pos' = c.pos
          /\ pc' = "loop"

\* get_function found no function at the current line and returned
NotAFunction == ~DefHeader(line, 0).match

\* lines 756-760: the UnboundLocalError of get_class is caught nowhere
ParseClass ==
  /\ Unclassified
  /\ NotAFunction
  /\ RecordClass(get_class(line, lines, pos, 0))
  /\ UNCHANGED <<given, fil, lines, description, version, modules, variables,
                 functions, ret>>

\* line 762: neither get_function nor get_class found anything
ParseSkip ==
  /\ Unclassified
  /\ NotAFunction
  /\ ~ClassHeader(line, 0).match
  /\ Advance
  /\ UNCHANGED <<given, fil, lines, description, version, modules, variables,
                 functions, classes, ret>>

\* lines 763-766: the loop ended because line is None
ParseSort ==
  /\ pc = "loop" /\ line = None
  /\ modules' = SortedStr(modules)
  /\ variables' = SortedByName(variables)
  /\ functions' = SortedByName(functions)
  /\ classes' = SortedByName(classes)
  /\ pc' = "return"
  /\ UNCHANGED <<given, fil, lines, pos, line, description, version, ret>>

\* lines 768-774: except StopIteration: pass, then close and return
ParseStopIteration ==
  /\ pc = "except"
  /\ pc' = "return"
  /\ UNCHANGED <<given, fil, lines, pos, line, description, version, modules,
                 variables, functions, classes, ret>>

\* a caller pulls the first line and hands it to get_docstring
CallGetDocstring ==
  /\ pc = "init"
  /\ non_empty_lines(fil) # <<>>
  /\ lines' = non_empty_lines(fil)
  /\ \E indent \in Indents :
       ret' = [op |-> "get_docstring", indent |-> indent,
               r |-> get_docstring(lines'[1], lines', 1, indent)]
  /\ pc' = "called"
  /\ UNCHANGED <<given, fil, pos, line, description, version, modules,
                 variables, functions, classes>>

\* a caller pulls the first line and hands it to get_function
CallGetFunction ==
  /\ pc = "init"
  /\ non_empty_lines(fil) # <<>>
  /\ lines' = non_empty_lines(fil)
  /\ \E indent \in Indents :
       ret' = [op |-> "get_function", indent |-> indent,
               r |-> get_function(lines'[1], lines', 1, indent)]
  /\ pc' = "called"
  /\ UNCHANGED <<given, fil, pos, line, description, version, modules,
                 variables, functions, classes>>

\* a caller pulls the first line and hands it to get_class
CallGetClass ==
  /\ pc = "init"
  /\ non_empty_lines(fil) # <<>>
  /\ lines' = non_empty_lines(fil)
  /\ \E indent \in Indents :
       ret' = [op |-> "get_class", indent |-> indent,
               r |-> get_class(lines'[1], lines', 1, indent)]
  /\ pc' = "called"
  /\ UNCHANGED <<given, fil, pos, line, description, version, modules,
                 variables, functions, classes>>

\* a caller pulls the first line and hands it to get_exception
CallGetException ==
  /\ pc = "init"
  /\ non_empty_lines(fil) # <<>>
  /\ lines' = non_empty_lines(fil)
  /\ ret' = [op |-> "get_exception", r |-> get_exception(lines'[1])]
  /\ pc' = "called"
  /\ UNCHANGED <<given, fil, pos, line, description, version, modules,
                 variables, functions, classes>>

\* a caller hands a function record that parse returned to
\* _make_function_docstring and collects the lines it yields
CallMakeFunctionDocstring ==
  /\ pc = "return"
  /\ \E i \in 1..Len(functions), indent \in Indents :
       ret' = [op |-> "_make_function_docstring", indent |-> indent,
               func |-> functions[i],
               r |-> _make_function_docstring(functions[i], indent)]
  /\ pc' = "called"
  /\ UNCHANGED <<given, fil, lines, pos, line, description, version, modules,
                 variables, functions, classes>>

\* the function names a caller asks prepare_docstring for
FunctionNames == {<<"f","o","o">>, <<"m">>, <<"z","z">>}

\* prepare_docstring(module_file_name, function_name) once its call of parse
\* has returned
CallPrepareDocstring ==
  /\ pc = "return"
  /\ \E function_name \in FunctionNames :
       ret' = [op |-> "prepare_docstring", function_name |-> function_name,
               r |-> prepare_docstring(functions, function_name)]
  /\ pc' = "called"
  /\ UNCHANGED <<given, fil, lines, pos, line, description, version, modules,
                 variables, functions, classes>>

\* _add_missing_docstring(module_file_name) once its call of parse has
\* returned: the lines add_missing_docstring writes to the copy
CallAddMissingDocstring ==
  /\ pc = "return"
  /\ ret' = [op |-> "_add_missing_docstring",
             r |-> _add_missing_docstring(fil, functions)]
  /\ pc' = "called"
  /\ UNCHANGED <<given, fil, lines, pos, line, description, version, modules,
                 variables, functions, classes>>

Next ==
  \/ ParseBegin
  \/ ParseModule
  \/ ParseVersion
  \/ ParseVariable
  \/ ParseFunction
  \/ ParseClass
  \/ ParseSkip
  \/ ParseSort
  \/ ParseStopIteration
  \/ CallGetDocstring
  \/ CallGetFunction
  \/ CallGetClass
  \/ CallGetException
  \/ CallMakeFunctionDocstring
  \/ CallPrepareDocstring
  \/ CallAddMissingDocstring

Spec == Init /\ [][Next]_vars

----------------------------------------------------------------------------
(* Properties                                                              *)

IsSortedStr(s) == \A i \in 1..(Len(s) - 1) : ~StrLess(s[i + 1], s[i])

IsSortedByName(s) ==
  \A i \in 1..(Len(s) - 1) : ~StrLess(s[i + 1].name, s[i].name)

\* some record of the sequence s has the name n
HasName(s, n) == \E i \in 1..Len(s) : s[i].name = n

\* C1: whatever line the file ends on, the tuple parse returns has modules
\* in ascending order and variables, functions and classes in ascending
\* order of 'name'.
C1_ParseReturnsSorted ==
  pc = "return" =>
    /\ IsSortedStr(modules)
    /\ IsSortedByName(variables)
    /\ IsSortedByName(functions)
    /\ IsSortedByName(classes)

\* line i of the stream is a complete one-line def header at indentation n
CompleteHeaderAt(i, n) ==
  DefHeader(lines[i], n).match /\ DefHeader(lines[i], n).endpar

\* the stream is a class header followed by methods only: every line of the
\* body is a complete def header at the body indentation with a deeper line
\* after it, or a line deeper than the body indentation
ClassOfMethods ==
  /\ Len(lines) >= 2
  /\ ClassHeader(lines[1], 0).match
  /\ get_indent(lines[2]) > 0
  /\ \A i \in 2..Len(lines) :
       \/ /\ CompleteHeaderAt(i, get_indent(lines[2]))
          /\ i < Len(lines)
          /\ get_indent(lines[i + 1]) > get_indent(lines[2])
       \/ get_indent(lines[i]) > get_indent(lines[2])

MethodHeaders ==
  {i \in 2..Len(lines) : CompleteHeaderAt(i, get_indent(lines[2]))}

\* C2: for a class whose body holds def headers at the body indentation,
\* get_class returns exactly one method record per header, also when the
\* methods directly follow one another.
C2_OneMethodPerHeader ==
  (ret.op = "get_class" /\ ret.indent = 0 /\ ClassOfMethods) =>
    /\ ret.r.found
    /\ Len(ret.r.cla.functions) = Cardinality(MethodHeaders)
    /\ \A i \in MethodHeaders :
         HasName(ret.r.cla.functions,
                 DefHeader(lines[i], get_indent(lines[2])).name)

\* the first line of the stream indented less than the class body that
\* starts at line 2 (0 when the body runs to the end)
ClassEnd ==
  LET ends == {i \in 3..Len(lines) : get_indent(lines[i]) < get_indent(lines[2])}
  IN  IF ends = {} THEN 0 ELSE CHOOSE i \in ends : \A j \in ends : i <= j

\* the stream is a class whose body has no docstring and no unfinished
\* header, directly followed by a top-level def or class header
ClassThenBlock ==
  /\ Len(lines) >= 3
  /\ ClassHeader(lines[1], 0).match
  /\ get_indent(lines[2]) > 0
  /\ ClassEnd > 0
  /\ \A i \in 1..Len(lines) : ~Contains(lines[i], SQ3) /\ ~Contains(lines[i], DQ3)
  /\ \A i \in 2..(ClassEnd - 1) :
       DefHeader(lines[i], get_indent(lines[2])).match
         => /\ CompleteHeaderAt(i, get_indent(lines[2]))
            /\ i + 1 < ClassEnd
            /\ get_indent(lines[i + 1]) > get_indent(lines[2])
  /\ CompleteHeaderAt(ClassEnd, 0) \/ ClassHeader(lines[ClassEnd], 0).match

\* C3: get_class consumes no line of the enclosing scope: a top-level
\* function or class that directly follows a class is recorded by parse.
C3_BlockAfterClassRecorded ==
  (pc = "return" /\ ClassThenBlock) =>
    IF CompleteHeaderAt(ClassEnd, 0)
    THEN HasName(functions, DefHeader(lines[ClassEnd], 0).name)
    ELSE HasName(classes, ClassHeader(lines[ClassEnd], 0).name)

RECURSIVE JoinLines(_)
\* the lines of s with a newline between them
JoinLines(s) ==
  IF s = <<>> THEN <<>>
  ELSE IF Len(s) = 1 THEN s[1]
  ELSE s[1] \o <<"\n">> \o JoinLines(Tail(s))

\* the file starts with a triple-quoted string closed on its first line
DocOnOneLine(f) ==
  f # <<>> /\ StartsTriple(f[1]) /\ Len(f[1]) >= 6 /\ EndsWith(f[1], Take(f[1], 3))

\* the first later line that ends in the delimiter the file opens with
DocLastLine(f) ==
  LET ends == {j \in 2..Len(f) : EndsWith(f[j], Take(f[1], 3))}
  IN  IF ends = {} THEN 0 ELSE CHOOSE j \in ends : \A k \in ends : j <= k

\* the file starts with a triple-quoted string closed on a later line
DocOnManyLines(f) ==
  f # <<>> /\ StartsTriple(f[1]) /\ ~DocOnOneLine(f) /\ DocLastLine(f) > 0

\* the text between the delimiters of the string the file starts with
DocInnerText(f) ==
  IF DocOnOneLine(f) THEN Slice(f[1], 3, Len(f[1]) - 3)
  ELSE JoinLines(<<Drop(f[1], 3)>> \o SubSeq(f, 2, DocLastLine(f) - 1)
                 \o <<Take(f[DocLastLine(f)], Len(f[DocLastLine(f)]) - 3)>>)

\* C4: for a file whose first statement is a module-level triple-quoted
\* string, the description parse returns is the string's inner text with
\* leading and trailing whitespace trimmed.
C4_DescriptionIsInnerText ==
  (pc = "return" /\ (DocOnOneLine(fil) \/ DocOnManyLines(fil))) =>
    description = Strip(DocInnerText(fil))

ScenarioFile == <<LnDocDesc, LnVersion, LnImportRe, LnDefFoo, LnDoc4, LnPass4>>

\* C5: parsing the six-line scenario yields description 'desc', version
\* '2.0', modules ['re'], one function foo with empty args and keywords,
\* docstring 'doc' and no exceptions, and no variables or classes.
C5_Scenario ==
  fil = ScenarioFile =>
    /\ pc # "error"
    /\ pc = "return" =>
         /\ description = <<"d","e","s","c">>
         /\ version = <<"2",".","0">>
         /\ modules = << <<"r","e">> >>
         /\ functions = << [name |-> <<"f","o","o">>, args |-> <<>>,
                            keywords |-> <<>>, defaults |-> <<>>,
                            docstring |-> <<"d","o","c">>,
                            exceptions |-> <<>>] >>
         /\ variables = <<>>
         /\ classes = <<>>

C5_Witness == fil = ScenarioFile /\ pc = "return" /\ Len(functions) = 1

\* C6: a class body with the lines 'import os', 'x = 5' and
\* 'def m(self): pass' yields modules ['os'], a variable x and a method m
\* whose first positional argument is self.
C6_ClassMembers ==
  (/\ ret.op = "get_class" /\ ret.indent = 0
   /\ lines = <<LnClassA, LnImportOs4, LnVarX4, LnDefMInline>>) =>
    /\ ret.r.found
    /\ ret.r.cla.modules = << <<"o","s">> >>
    /\ HasName(ret.r.cla.variables, <<"x">>)
    /\ \E i \in 1..Len(ret.r.cla.functions) :
         /\ ret.r.cla.functions[i].name = <<"m">>
         /\ ret.r.cla.functions[i].args # <<>>
         /\ ret.r.cla.functions[i].args[1] = <<"s","e","l","f">>

IsBare(p) == p.default = None

IsKeyword(p) == p.default # None

NamesOf(ps) == [i \in 1..Len(ps) |-> ps[i].name]

DefaultsOf(ps) == [i \in 1..Len(ps) |-> ps[i].default]

\* C7: for a header whose parameters are bare identifiers and
\* identifier=expression tokens, get_function returns the bare identifiers
\* as args and the names and raw default texts as keywords and defaults, all
\* in declared order.
C7_ParametersInOrder ==
  (ret.op = "get_function" /\ ret.indent = 0 /\ given.kind = "header") =>
    /\ ret.r.found
    /\ ret.r.function.name = <<"f">>
    /\ ret.r.function.args = NamesOf(SelectSeq(given.params, IsBare))
    /\ ret.r.function.keywords = NamesOf(SelectSeq(given.params, IsKeyword))
    /\ ret.r.function.defaults = DefaultsOf(SelectSeq(given.params, IsKeyword))

\* the header def f(a, b=1, c="x"): was parsed
C7_Witness ==
  /\ ret.op = "get_function" /\ ret.indent = 0 /\ given.kind = "header"
  /\ given.breaks = {}
  /\ NamesOf(given.params) = << <<"a">>, <<"b">>, <<"c">> >>
  /\ ret.r.function.args = << <<"a">> >>
  /\ ret.r.function.keywords = << <<"b">>, <<"c">> >>
  /\ ret.r.function.defaults = << <<"1">>, <<"\"","x","\"">> >>

\* the header of the input on one line, followed by the same tail
OneLine == non_empty_lines(HeaderFile(given.params, {}, given.tail))

\* the call r on the stream ls gave the same record as the call that was
\* made and stopped on the same line
SameOutcome(r, ls) ==
  /\ ret.r.raised = r.raised
  /\ ret.r.found = r.found
  /\ ret.r.function = r.function
  /\ ret.r.line = r.line
  /\ Len(lines) - ret.r.pos = Len(ls) - r.pos

\* C8: a header wrapped over several lines after commas gives the same
\* function record as the header on one line and leaves the cursor on the
\* same following line.
C8_WrappedHeaderSameRecord ==
  (/\ ret.op = "get_function" /\ ret.indent = 0
   /\ given.kind = "header" /\ given.breaks # {}) =>
    SameOutcome(get_function(OneLine[1], OneLine, 1, 0), OneLine)

\* a header wrapped twice, with lines after it, was parsed
C8_Witness ==
  /\ ret.op = "get_function" /\ ret.indent = 0 /\ given.kind = "header"
  /\ Cardinality(given.breaks) = 2
  /\ given.tail # <<>>
  /\ ret.r.found
  /\ Len(ret.r.function.args) + Len(ret.r.function.keywords) = 3
  /\ ret.r.line = LnVarX

\* the first line of the stream opens a docstring at the indentation of the
\* call and no line of the stream ends in a triple-quote delimiter
UnclosedDocstring ==
  /\ StartsWith(lines[1], Spaces(ret.indent))
  /\ StartsTriple(Drop(lines[1], ret.indent))
  /\ ~EndsTriple(Drop(lines[1], ret.indent + 3))
  /\ \A i \in 2..Len(lines) : ~EndsTriple(lines[i])

\* C9: given an opener and a stream that ends before a closing line,
\* get_docstring returns with the end-of-stream sentinel as the line and no
\* exception escapes.
C9_UnclosedDocstringReturns ==
  (ret.op = "get_docstring" /\ UnclosedDocstring) =>
    ret.r.raised = "" /\ ret.r.line = None

\* the first line is a def header and no line of the stream ends in '):'
UnclosedHeader ==
  /\ DefHeader(lines[1], ret.indent).match
  /\ \A i \in 1..Len(lines) : ~EndsWith(lines[i], RightParColon)

\* C10: for a def header whose '):' is not found before the stream ends,
\* get_function returns a function record with None as the next line and
\* no exception escapes.
C10_UnclosedHeaderReturns ==
  (ret.op = "get_function" /\ UnclosedHeader) =>
    /\ ret.r.raised = ""
    /\ ret.r.found
    /\ ret.r.function.name = DefHeader(lines[1], ret.indent).name
    /\ ret.r.line = None


\* C11: for every finite sequence of lines parse returns its tuple and does
\* not raise; what was appended before an unmatched line or a truncated
\* construct stays in the returned collections.
C11_ParseNeverRaises == pc # "error"

\* the line is __version__ = "<text>" or __version__ = '<text>'
VersionAssignment(l) ==
  \E q \in {"'", "\""} :
    /\ StartsWith(l, KwVersion \o <<" ", "=", " ", q>>)
    /\ Len(l) >= Len(KwVersion) + 5
    /\ l[Len(l)] = q

\* C12: a top-level line __version__ = "<text>" or __version__ = '<text>',
\* for any quoted text including the empty text, is classified as a version
\* assignment and never appended to the module's variables.
C12_VersionNeverVariable ==
  (pc = "return" /\ \E i \in 1..Len(fil) : VersionAssignment(fil[i])) =>
    ~HasName(variables, KwVersion)


\* C13: parse terminates on every finite input: every pass through a loop
\* pulls a line from the stream or leaves the loop, so that the stream is
\* exhausted and parse returns.
C13_ParseTerminates ==
  [][/\ pc = "loop" => (pos' > pos \/ pc' # "loop" \/ line' = None)
     /\ pc' # "error"]_vars


\* the raw line opens a triple-quoted string and has a second triple-quote
\* delimiter later on the line
OpensAndCloses(raw) ==
  LET r == Drop(raw, LeadingSpaces(raw))
  IN  StartsTriple(r) /\ (Contains(Drop(r, 3), SQ3) \/ Contains(Drop(r, 3), DQ3))

\* C14: in non_empty_lines, a line read outside a docstring that opens a
\* triple-quoted string and has a second delimiter later on the same line
\* leaves inside_docstring False, also when trailing whitespace or a comment
\* follows the closing delimiter.
C14_OneLineDocstringStaysOutside ==
  pc # "init" =>
    \A i \in 1..Len(fil) :
      (~ScanInside(fil, i - 1) /\ OpensAndCloses(fil[i])) => ~ScanInside(fil, i)


\* the line starts with a docstring delimiter at the given indentation
DocOpener(l, indent) ==
  StartsWith(l, Spaces(indent)) /\ StartsTriple(Drop(l, indent))

\* get_docstring was called on an opener and returned a docstring
Extracted ==
  /\ ret.op = "get_docstring"
  /\ DocOpener(lines[1], ret.indent)
  /\ ret.r.raised = ""

\* the line of the stream on which the extracted docstring ended
ClosingLine == IF ret.r.pos = 1 THEN 1 ELSE ret.r.pos - 1

\* C15: the scanner and the extractor agree on where a docstring ends: when
\* get_docstring returns a docstring non_empty_lines is outside a docstring
\* after the line that closed it, and every line get_docstring absorbed
\* after the opener was read by the scanner inside a docstring.
C15_ScannerAndExtractorAgree ==
  Extracted =>
    /\ ~ScanInside(fil, YieldIndex(fil)[ClosingLine])
    /\ \A j \in 2..ClosingLine : ScanInside(fil, YieldIndex(fil)[j] - 1)


\* the delimiter the extracted docstring was opened with
OpenerDelimiter == Take(Drop(lines[1], ret.indent), 3)

\* C16: a docstring opened with one delimiter is closed only by a line
\* ending in that same delimiter, on the opening line or on a later line.
C16_ClosedBySameDelimiter ==
  Extracted =>
    IF ret.r.pos = 1
    THEN EndsWith(Drop(lines[1], ret.indent + 3), OpenerDelimiter)
    ELSE EndsWith(lines[ClosingLine], OpenerDelimiter)


\* C17: when the candidate line is not a docstring opener at the given
\* indentation, get_docstring returns the empty string and the very line it
\* was given, and pulls no line from the stream.
C17_NoOpenerNothingPulled ==
  (ret.op = "get_docstring" /\ ~DocOpener(lines[1], ret.indent)) =>
    /\ ret.r.raised = ""
    /\ ret.r.out = <<>>
    /\ ret.r.line = lines[1]
    /\ ret.r.pos = 1

\* get_docstring was called at indentation 4 on a delimiter at indentation 0
\* with further lines in the stream, and returned that line
C17_Witness ==
  /\ ret.op = "get_docstring" /\ ret.indent = 4
  /\ lines[1] = LnSQ3 /\ Len(lines) >= 2
  /\ ret.r.line = LnSQ3 /\ ret.r.pos = 1


\* the line of the stream on which the docstring opened on line 1 ends: line
\* 1 when the delimiter is repeated there, else the first later line that
\* ends in a delimiter (0 when there is none)
DocEnd ==
  LET ends == {j \in 2..Len(lines) : EndsTriple(lines[j])}
  IN  IF EndsTriple(Drop(lines[1], ret.indent + 3)) THEN 1
      ELSE IF ends = {} THEN 0
      ELSE CHOOSE j \in ends : \A k \in ends : j <= k

\* C18: whenever get_docstring extracts a docstring, the line it returns is
\* the first line after the docstring, for a docstring on one line and for a
\* docstring over several lines.
C18_ReturnsLineAfterDocstring ==
  (/\ ret.op = "get_docstring" /\ DocOpener(lines[1], ret.indent)
   /\ DocEnd > 0 /\ DocEnd < Len(lines)) =>
    /\ ret.r.raised = ""
    /\ ret.r.pos = DocEnd + 1
    /\ ret.r.line = lines[DocEnd + 1]


\* the least element of a set of numbers, d when the set is empty
MinOr(S, d) == IF S = {} THEN d ELSE CHOOSE j \in S : \A k \in S : j <= k

\* the indentation of the body of the function whose header is line 1
BodyIndent == get_indent(lines[2])

\* the line on which the docstring of that function ends: 1 when the body
\* has no docstring, 0 when the docstring is not closed
BodyDocEnd ==
  IF ~DocOpener(lines[2], BodyIndent) THEN 1
  ELSE IF EndsTriple(Drop(lines[2], BodyIndent + 3)) THEN 2
  ELSE MinOr({j \in 3..Len(lines) : EndsTriple(lines[j])}, 0)

\* the first line after the docstring indented less than the body (one past
\* the end of the stream when there is none)
BodyStop ==
  MinOr({j \in (BodyDocEnd + 1)..Len(lines) : get_indent(lines[j]) < BodyIndent},
        Len(lines) + 1)

\* the statements of the body: the lines after the header and the docstring
\* up to the first dedent
BodyLines == (BodyDocEnd + 1)..(BodyStop - 1)

\* the line is 'raise Name(...)'
IsRaiseLine(l) ==
  LET r == Drop(l, LeadingSpaces(l))
  IN  /\ StartsWith(r, KwRaise)
      /\ r[Len(r)] = ")"
      /\ IsPositional(Take(Drop(r, 6), Find(Drop(r, 6), "(")))

\* the identifier of a raise line
RaiseName(l) ==
  LET t == Drop(l, LeadingSpaces(l) + 6) IN Take(t, Find(t, "("))

\* get_function was called on a complete header followed by an indented body
\* whose docstring, if any, is closed
FunctionWithBody ==
  /\ ret.op = "get_function" /\ ret.indent = 0
  /\ ret.r.found
  /\ DefHeader(lines[1], 0).endpar
  /\ Len(lines) >= 2
  /\ BodyIndent > 0
  /\ BodyDocEnd > 0

\* the sequence s has the element x
Has(s, x) == \E k \in 1..Len(s) : s[k] = x

\* C19: every raise Name(...) line in a function's body contributes its
\* identifier to the function's exceptions, also as the first body line
\* after the header and as the first line after a multi-line docstring.
C19_EveryRaiseInBodyCollected ==
  FunctionWithBody =>
    \A j \in BodyLines :
      IsRaiseLine(lines[j]) =>
        Has(ret.r.function.exceptions, RaiseName(lines[j]))

\* C20: a function's exceptions hold identifiers only from raise lines
\* inside its body: a raise on the line that ends the body is not
\* attributed to the function.
C20_OnlyRaisesOfBody ==
  FunctionWithBody =>
    \A k \in 1..Len(ret.r.function.exceptions) :
      \E j \in BodyLines :
        /\ IsRaiseLine(lines[j])
        /\ RaiseName(lines[j]) = ret.r.function.exceptions[k]


\* C21: for a line raise Name(<arguments>), get_exception returns exactly
\* the callable's name Name for every argument text, also when the arguments
\* contain parentheses.
C21_ExceptionNameOnly ==
  (ret.op = "get_exception" /\ IsRaiseLine(lines[1])) =>
    ret.r = RaiseName(lines[1])


\* the line is free of triple quotes, or is an indented docstring that
\* opens and closes on the line
PlainLine(l) ==
  \/ ~Contains(l, SQ3) /\ ~Contains(l, DQ3)
  \/ /\ get_indent(l) > 0
     /\ DocOpener(l, get_indent(l))
     /\ EndsTriple(Drop(l, get_indent(l) + 3))

\* the file is made of module-level statements and functions: no class, no
\* comment, no multi-line docstring, and every def at indentation 0 has a
\* complete one-line header and an indented line after it
ModuleOfFunctions ==
  /\ lines = fil
  /\ \A i \in 1..Len(lines) :
       /\ PlainLine(lines[i])
       /\ ~ClassHeader(lines[i], 0).match
       /\ DefHeader(lines[i], 0).match =>
            /\ CompleteHeaderAt(i, 0)
            /\ i < Len(lines)
            /\ get_indent(lines[i + 1]) > 0

TopLevelHeaders == {i \in 1..Len(lines) : CompleteHeaderAt(i, 0)}

\* C22: at module level the line on which get_function stops is handed
\* back to parse and classified: every top-level def with a complete
\* one-line header is recorded in functions, also one that directly follows
\* the body of another top-level function.
C22_EveryTopLevelDefRecorded ==
  (pc = "return" /\ ModuleOfFunctions) =>
    /\ Len(functions) = Cardinality(TopLevelHeaders)
    /\ \A i \in TopLevelHeaders :
         HasName(functions, DefHeader(lines[i], 0).name)

\* parse returned both functions of a file in which bar directly follows
\* the body of foo
C22_Witness ==
  /\ pc = "return"
  /\ lines = <<LnDefFoo, LnPass4, LnDefBar, LnPass4>>
  /\ HasName(functions, <<"f","o","o">>)
  /\ HasName(functions, <<"b","a","r">>)


\* C23: every class record returned by get_class has its modules in
\* ascending order and its variables and functions in ascending order of
\* 'name', when a dedented line ends the class body and when the body runs
\* to the end of the input.
C23_ClassRecordSorted ==
  (ret.op = "get_class" /\ ret.r.found) =>
    /\ IsSortedStr(ret.r.cla.modules)
    /\ IsSortedByName(ret.r.cla.variables)
    /\ IsSortedByName(ret.r.cla.functions)


\* the number of the first line of the template r whose text is t
TemplateLineOf(r, t) ==
  MinOr({i \in 1..Len(r) : Strip(r[i]) = t}, 0)

\* the entries under 'Args:': the lines up to the empty line before
\* 'Returns:'
ArgsSection(r) ==
  SubSeq(r, TemplateLineOf(r, TxArgs) + 1, TemplateLineOf(r, TxReturns) - 2)

\* the entries under 'Raises:': the lines up to the closing delimiter
RaisesSection(r) == SubSeq(r, TemplateLineOf(r, TxRaises) + 1, Len(r) - 1)

\* the entry e is the entry of the parameter called name
EntryOf(e, name) == StartsWith(LStrip(e), name \o <<" ", "(">>)

\* the template r lists the parameters args, then the keyword parameters of
\* func with their defaults, and the exceptions of func, each in order
TemplateLists(r, args, func) ==
  /\ TemplateLineOf(r, TxArgs) > 0
  /\ TemplateLineOf(r, TxReturns) > TemplateLineOf(r, TxArgs)
  /\ TemplateLineOf(r, TxRaises) > TemplateLineOf(r, TxReturns)
  /\ Len(ArgsSection(r)) = Len(args) + Len(func.keywords)
  /\ \A i \in 1..Len(args) : EntryOf(ArgsSection(r)[i], args[i])
  /\ \A j \in 1..Len(func.keywords) :
       /\ EntryOf(ArgsSection(r)[Len(args) + j], func.keywords[j])
       /\ Contains(ArgsSection(r)[Len(args) + j],
                   <<"t", "o", " ">> \o func.defaults[j] \o <<".">>)
  /\ Len(RaisesSection(r)) = Len(func.exceptions)
  /\ \A k \in 1..Len(func.exceptions) :
       Strip(RaisesSection(r)[k]) = func.exceptions[k]

\* _make_function_docstring was called on a record with empty docstring
TemplateMade ==
  ret.op = "_make_function_docstring" /\ ret.func.docstring = <<>>

\* C24 as stated: the template has one Args entry for each positional
\* parameter in args, a parameter named 'self' included, one entry with its
\* default for each keyword parameter and one Raises entry for each
\* exception, in the order of the record.
C24_TemplateListsEveryParameter ==
  TemplateMade => TemplateLists(ret.r, ret.func.args, ret.func)

\* C24 as amended: the template has one Args entry for each positional
\* parameter in args other than 'self', one entry with its default for each
\* keyword parameter and one Raises entry for each exception, in the order
\* of the record.
C24_TemplateListsParametersButSelf ==
  TemplateMade =>
    TemplateLists(ret.r, SelectSeq(ret.func.args, NotSelf), ret.func)

\* a template was made for def m(self, a, b=1) with two raise lines in its
\* body: one entry for a, one for b, none for self
C24_Witness ==
  /\ TemplateMade
  /\ ret.func.args = <<TxSelf, <<"a">> >>
  /\ ret.func.keywords = << <<"b">> >>
  /\ Len(ret.func.exceptions) >= 1
  /\ Len(ArgsSection(ret.r)) = 2
  /\ Len(RaisesSection(ret.r)) = Len(ret.func.exceptions)


\* the comma-separated tokens of the parameter list of the header that
\* starts on the first line of the stream
HeaderTokens ==
  LET h == DefHeader(lines[1], ret.indent)
  IN  Split(HeaderLoop(h.allargs, h.endpar, lines, 1).allargs, ",")

HasEquals(t) == Find(t, "=") < Len(t)

NoEquals(t) == Find(t, "=") = Len(t)

\* what stands before and after the first '=' of the token t
BeforeEquals(t) == Strip(Take(t, Find(t, "=")))

AfterEquals(t) == Strip(Drop(t, Find(t, "=") + 1))

\* the token t is identifier = text
IsKeywordToken(t) ==
  /\ HasEquals(t)
  /\ BeforeEquals(t) # <<>>
  /\ NameLen(BeforeEquals(t)) = Len(BeforeEquals(t))

\* keywords and defaults are, in order, the two sides of the tokens kt
PairedWith(f, kt) ==
  /\ Len(f.keywords) = Len(kt)
  /\ \A j \in 1..Len(kt) :
       /\ f.keywords[j] = BeforeEquals(kt[j])
       /\ f.defaults[j] = AfterEquals(kt[j])

\* C25: in every function record get_function returns, keywords and
\* defaults have the same length, defaults[j] is the text after the '=' of
\* the token keywords[j] comes from, and every comma-separated token of the
\* parameter list goes to at most one of args and keywords.
C25_KeywordsPairedWithDefaults ==
  (ret.op = "get_function" /\ ret.r.found) =>
    /\ Len(ret.r.function.keywords) = Len(ret.r.function.defaults)
    /\ PairedWith(ret.r.function, SelectSeq(HeaderTokens, IsKeywordToken))
    /\ Len(ret.r.function.args) <= Len(SelectSeq(HeaderTokens, NoEquals))
    /\ \A i \in 1..Len(ret.r.function.args) :
         NoEquals(ret.r.function.args[i])
    /\ Len(ret.r.function.args) + Len(ret.r.function.keywords)
         <= Len(HeaderTokens)

\* def g(a, b=(1,2), c = 3): was parsed: four tokens, one positional
\* parameter, two keywords paired with the texts '(1' and '3'
C25_Witness ==
  /\ ret.op = "get_function" /\ ret.r.found
  /\ lines[1] = LnDefTuple
  /\ Len(HeaderTokens) = 4
  /\ ret.r.function.args = << <<"a">> >>
  /\ ret.r.function.keywords = << <<"b">>, <<"c">> >>
  /\ ret.r.function.defaults = << <<"(", "1">>, <<"3">> >>


\* C26: prepare_docstring raises ValueError if and only if no function
\* called function_name is among the functions parse returned; when there is
\* one it prints the template and returns without raising.
C26_ValueErrorOnlyWhenNotFound ==
  ret.op = "prepare_docstring" =>
    /\ ret.r.raised = "ValueError" <=> ~HasName(functions, ret.function_name)
    /\ HasName(functions, ret.function_name) =>
         (ret.r.raised = "" /\ ret.r.printed # <<>>)


RECURSIVE IsSubsequence(_, _)
\* the lines of s stand in t, unchanged and in the same order
IsSubsequence(s, t) ==
  IF s = <<>> THEN TRUE
  ELSE IF t = <<>> THEN FALSE
  ELSE IF Head(s) = Head(t) THEN IsSubsequence(Tail(s), Tail(t))
  ELSE IsSubsequence(s, Tail(t))

\* some line of the file is the header of a top-level function that parse
\* recorded without docstring
HeaderWithoutDocstring ==
  \E i \in 1..Len(fil) :
    /\ DefHeader(fil[i], 0).match
    /\ DefHeader(fil[i], 0).name \in WithoutDocstrings(functions)

\* C27: the lines _add_missing_docstring produces contain every line of the
\* input file, unchanged and in the original order, and nothing is inserted
\* unless the file has the header of a top-level function without
\* docstring; in particular the output is the input when every function has
\* a docstring.
C27_EveryInputLineKept ==
  ret.op = "_add_missing_docstring" =>
    /\ IsSubsequence(RawLines(fil, 1, Len(fil)), ret.r)
    /\ ~HeaderWithoutDocstring => ret.r = RawLines(fil, 1, Len(fil))

====
